---- MODULE Spec2Model ----
(***************************************************************************)
(* A model of cj123/go-ipsw: DownloadFile (partial download of one entry   *)
(* of a remote ZIP archive through a range reader) and the REST client     *)
(* glue of package api (NewIPSWClient / makeRequest, keysClient).          *)
(*                                                                         *)
(* DownloadFile and bufferedDownload are translated from the source.  The  *)
(* range reader (ranger.NewReader) and the archive reader (zip.NewReader,  *)
(* zip.File.Open and the reader it returns) are called by the source but   *)
(* not part of it; they are modelled from sections 4.1 - 4.3 of the        *)
(* specification and are marked as such.                                   *)
(***************************************************************************)
EXTENDS Integers, Sequences, FiniteSets, TLC

\* ------------------------------------------------------------------ bounds

\* most decompressed bytes held by one archive, over all its entries
MaxBytes == 3
\* most entries in one archive
MaxEntries == 2
\* most bytes one Read of io.Copy's loop hands over (its buffer, scaled down)
CopyBuf == 2
\* most requests issued by the api clients in one behaviour
MaxRequests == 2

\* ------------------------------------------------------------- the archive

Byte == 0 .. 1

\* the names entries are stored under; they differ in letter case only
StoredNames == {"a", "A"}

\* the names a caller asks for; no entry is stored as "b"
RequestNames == {"a", "b"}

\* compression methods: the two the archive reader decompresses and another
Methods == {"Store", "Deflate", "Other"}

\* the sum of the first i elements of l
RECURSIVE SumTo(_, _)
SumTo(l, i) == IF i = 0 THEN 0 ELSE l[i] + SumTo(l, i - 1)

\* the content lengths an archive's entries may have, in archive order
Profiles ==
    UNION {{l \in [1 .. n -> 0 .. MaxBytes] : SumTo(l, n) <= MaxBytes} :
              n \in 0 .. MaxEntries}

\* The archive whose i-th entry has the stored name nm[i], the compression
\* method m[i] and the next l[i] bytes of bytes as the content its author
\* put there.
ArchiveOf(l, nm, m, bytes) ==
    [i \in 1 .. Len(l) |->
        [name |-> nm[i], method |-> m[i],
         content |-> SubSeq(bytes, SumTo(l, i - 1) + 1, SumTo(l, i))]]

Min(a, b) == IF a < b THEN a ELSE b

IsPrefix(p, s) == Len(p) <= Len(s) /\ SubSeq(s, 1, Len(p)) = p

\* CRC-32 of a byte sequence.  Over contents this short a CRC-32 tells any
\* two of them apart and is 0 for the empty one; the positional encoding
\* below has both properties.
RECURSIVE Crc32(_)
Crc32(s) == IF s = <<>> THEN 0 ELSE (1 + Head(s)) + 3 * Crc32(Tail(s))

Flip(b) == 1 - b

\* The deflate stream of a content: a block header, the coded bytes and an
\* end-of-block marker.
DeflateOf(c) == <<1>> \o [i \in 1 .. Len(c) |-> Flip(c[i])] \o <<0>>

\* What inflating a stream yields: the bytes it produces, then the error
\* that ends it ("none" for a clean end of stream).  A bad header is found
\* before any byte is produced, a bad end marker after all of them.
Inflate(p) ==
    IF Len(p) < 2 THEN [out |-> <<>>, err |-> "ErrUnexpectedEOF"]
    ELSE IF p[1] # 1 THEN [out |-> <<>>, err |-> "ErrCorruptInput"]
    ELSE LET body == [i \in 1 .. Len(p) - 2 |-> Flip(p[i + 1])]
         IN  [out |-> body,
              err |-> IF p[Len(p)] # 0 THEN "ErrCorruptInput" ELSE "none"]

\* the compressed payload of an entry as stored in the archive
PayloadOf(e) == IF e.method = "Deflate" THEN DeflateOf(e.content) ELSE e.content

\* the central-directory record of the i-th entry
DirEntry(e, i) ==
    [Name |-> e.name, Method |-> e.method, CRC32 |-> Crc32(e.content),
     UncompressedSize64 |-> Len(e.content),
     CompressedSize64 |-> Len(PayloadOf(e)), index |-> i]

\* ------------------------------------------------------------ the resource

\* What a resource string stands for: whether url.Parse accepts it, how the
\* server answers the range probe, whether the bytes are a ZIP archive, and
\* the archive.
ZipResource(a) == [wellformed |-> TRUE, status |-> "206", zip |-> TRUE, File |-> a]

\* the resources that yield no archive: a string url.Parse rejects, servers
\* that answer the probe with something else than partial content, and a
\* server whose bytes are no ZIP archive
OtherResources ==
    {[wellformed |-> FALSE, status |-> "none", zip |-> FALSE, File |-> <<>>]}
    \cup {[wellformed |-> TRUE, status |-> st, zip |-> FALSE, File |-> <<>>] :
            st \in {"200", "404", "neterr", "206"}}

Sessions == {"s1", "s2"}

NoReader == [open |-> FALSE, Client |-> "nil"]

NoZip == [built |-> FALSE, File |-> <<>>]

NoRC == [open |-> FALSE, closed |-> FALSE, file |-> 0, payload |-> <<>>, pos |-> 0]

\* the steps of one DownloadFile call, in the order of its statements
StepOrder ==
    <<"url.Parse", "ranger.NewReader", "zip.NewReader", "lookup", "bufferedDownload">>

VARIABLES
    DefaultClient,  \* the package-level HTTP client of package ipsw
    pc,             \* per session: where the DownloadFile call stands
    resource,       \* per session: the resource argument
    file,           \* per session: the file argument
    err,            \* per session: the err of the call, "nil" while no step has failed
    result,         \* per session: "none" until the call returns, then its error ("nil" for none)
    sink,           \* per session: the bytes written to w by this call
    reader,         \* per session: the *ranger.Reader
    zipReader,      \* per session: the *zip.Reader
    rc,             \* per session: the entry's io.ReadCloser
    trace,          \* per session: the steps run so far
    build,          \* "native" or "js": the build of package api
    wrapper,        \* the *ipswHTTPWrapper of the IPSWClient
    ctorArg,        \* the httpClient argument NewIPSWClient was given
    issuedVia,      \* what the wrapper's requests have been issued through
    ret,            \* what the last makeRequest of the wrapper returned
    served,         \* the last request made: the helper, its base, what became of it
    mret,           \* what the last output-unmarshalling MakeRequest returned
    apc,            \* where the keysClient operation in progress stands
    op,             \* the keysClient operation in progress
    resp,           \* the *http.Response that operation holds (0: nil)
    kerr,           \* the err of that operation
    deferred,       \* whether that operation has deferred resp.Body.Close()
    bodies,         \* per response MakeRequest returned: its path and the Close calls on its body
    nilCloses,      \* Close calls attempted through a nil response
    requests        \* operations started so far

dlvars == <<DefaultClient, pc, resource, file, err, result, sink, reader,
            zipReader, rc, trace>>

apivars == <<build, wrapper, ctorArg, issuedVia, ret, served, mret, apc, op, resp, kerr,
             deferred, bodies, nilCloses, requests>>

vars == <<DefaultClient, pc, resource, file, err, result, sink, reader,
          zipReader, rc, trace, build, wrapper, ctorArg, issuedVia, ret, served,
          mret, apc,
          op, resp, kerr, deferred, bodies, nilCloses, requests>>


\* an assignment that lands in a variable all calls share
SetShared(f, s, v) == [t \in DOMAIN f |-> v]

\* the assignment of v to the local f of the call s
Set(f, s, v) == [f EXCEPT ![s] = v]

\* ---------------------------------------------- the collaborators' contracts

\* ranger.NewReader: probes the resource once; a partial-content answer
\* opens the reader, anything else is a hard failure.
NewReader(r) ==
    CASE r.status = "206" -> "nil"
      [] r.status = "200" -> "ErrRangeUnsupported"
      [] r.status = "404" -> "ErrUnavailable"
      [] OTHER -> "ErrTransport"

\* zip.NewReader: reads the end-of-central-directory record and the central
\* directory through the range reader and lists the entries in archive order.
NewZipReader(r, fault) ==
    IF fault THEN [err |-> "ErrTransport", File |-> <<>>]
    ELSE IF ~r.zip THEN [err |-> "ErrFormat", File |-> <<>>]
    ELSE [err |-> "nil",
          File |-> [i \in 1 .. Len(r.File) |-> DirEntry(r.File[i], i)]]

\* zip.File.Open: reads the local header and picks the decompressor.
FileOpen(f, fault) ==
    IF fault THEN "ErrTransport"
    ELSE IF f.Method \notin {"Store", "Deflate"} THEN "ErrAlgorithm"
    ELSE "nil"

\* a payload with its i-th byte changed
CorruptAt(p, i) == [p EXCEPT ![i] = Flip(p[i])]

\* what the range reader may deliver for a stored payload: the payload as
\* stored, or the payload with one byte corrupted on the way
Delivered(p) == {p} \cup {CorruptAt(p, i) : i \in 1 .. Len(p)}

\* The reader zip.File.Open returns, run to its end over the delivered
\* payload: the decompressed bytes it hands out, then the error of its last
\* Read.  The size and the CRC-32 of what was handed out are compared with
\* the directory entry's when the decompressor reports its end.
Stream(f, p) ==
    LET raw == IF f.Method = "Deflate" THEN Inflate(p)
               ELSE [out |-> p, err |-> "none"]
    IN  [out |-> raw.out,
         err |-> IF raw.err # "none" THEN raw.err
                 ELSE IF Len(raw.out) # f.UncompressedSize64 THEN "ErrUnexpectedEOF"
                 ELSE IF Crc32(raw.out) # f.CRC32 THEN "ErrChecksum"
                 ELSE "EOF"]

\* The Reads one iteration of io.Copy's loop may see at position pos: some
\* of the bytes still to come, the end of the stream, or a transport failure.
Reads(st, pos) ==
    {[data |-> SubSeq(st.out, pos + 1, pos + n), er |-> "none"] :
        n \in 1 .. Min(CopyBuf, Len(st.out) - pos)}
    \cup (IF pos = Len(st.out) THEN {[data |-> <<>>, er |-> st.err]} ELSE {})
    \cup {[data |-> <<>>, er |-> "ErrTransport"]}

\* io.Copy's verdict on one iteration: nr bytes read with error er, nw of
\* them accepted by the writer.  "none": the loop goes on.
CopyErr(nr, nw, er) ==
    IF nw < nr THEN "ErrShortWrite"
    ELSE IF er = "none" THEN "none"
    ELSE IF er = "EOF" THEN "nil"
    ELSE er

\* ------------------------------------------------------------- DownloadFile

\* the loop over zipReader.File: the index of the first file whose Name is
\* the requested one, 0 when the loop ends without one
RECURSIVE LookupFrom(_, _, _)
LookupFrom(File, name, i) ==
    IF i > Len(File) THEN 0
    ELSE IF File[i].Name = name THEN i
    ELSE LookupFrom(File, name, i + 1)

\* a lookup that keeps the last match instead of returning at the first
LookupLast(File, name) ==
    IF \E i \in 1 .. Len(File) : File[i].Name = name
    THEN CHOOSE i \in 1 .. Len(File) :
            /\ File[i].Name = name
            /\ \A j \in i + 1 .. Len(File) : File[j].Name # name
    ELSE 0

\* the lower-case form of a stored or requested name
ToLower(name) == IF name = "A" THEN "a" ELSE name

\* a lookup that compares the names without regard to letter case
RECURSIVE LookupFoldFrom(_, _, _)
LookupFoldFrom(File, name, i) ==
    IF i > Len(File) THEN 0
    ELSE IF ToLower(File[i].Name) = ToLower(name) THEN i
    ELSE LookupFoldFrom(File, name, i + 1)

LookupFold(File, name) == LookupFoldFrom(File, name, 1)

\* a lookup that takes the last file whose name matches without regard to
\* letter case
LookupFoldLast(File, name) ==
    IF \E i \in 1 .. Len(File) : ToLower(File[i].Name) = ToLower(name)
    THEN CHOOSE i \in 1 .. Len(File) :
            /\ ToLower(File[i].Name) = ToLower(name)
            /\ \A j \in i + 1 .. Len(File) : ToLower(File[j].Name) # ToLower(name)
    ELSE 0

Lookup(File, name) == LookupFrom(File, name, 1)

\* a DownloadFile that falls out of the loop with no error
NotFoundNil == "nil"

\* the error DownloadFile returns when the loop ends without a match
NotFound == "ErrNotFound"

\* a bufferedDownload that drops io.Copy's error
bufferedDownloadNil(e) == "nil"

\* what bufferedDownload returns when io.Copy ends with the error e
bufferedDownload(e) == e

\* the four "if err != nil { return err }" of the call
parseFailed(e) == e # "nil"

\* a call that goes on with a reader that failed to open
readerFailedNever(e) == FALSE

readerFailed(e) == e # "nil"

\* a call that goes on without a directory
zipFailedNever(e) == FALSE

zipFailed(e) == e # "nil"

openFailed(e) == e # "nil"

Step(s, name) == trace' = Set(trace, s, Append(trace[s], name))

Return(s, e) ==
    /\ pc' = Set(pc, s, "done")
    /\ result' = Set(result, s, e)

Goto(s, label) ==
    /\ pc' = Set(pc, s, label)
    /\ UNCHANGED result

\* u, err := url.Parse(resource); if err != nil { return err }
ParseURL(s) ==
    /\ pc[s] = "parse"
    /\ Step(s, "url.Parse")
    /\ LET e == IF resource[s].wellformed THEN "nil" ELSE "ErrParse"
       IN  /\ err' = Set(err, s, e)
           /\ IF parseFailed(e) THEN Return(s, e) ELSE Goto(s, "open")
    /\ UNCHANGED <<DefaultClient, resource, file, sink, reader, zipReader, rc>>
    /\ UNCHANGED apivars

\* reader, err := ranger.NewReader(&ranger.HTTPRanger{URL: u, Client: DefaultClient})
\* if err != nil { return err }
OpenReader(s) ==
    /\ pc[s] = "open"
    /\ Step(s, "ranger.NewReader")
    /\ LET e == NewReader(resource[s])
       IN  /\ err' = Set(err, s, e)
           /\ reader' = Set(reader, s, [open |-> e = "nil", Client |-> DefaultClient])
           /\ IF readerFailed(e) THEN Return(s, e) ELSE Goto(s, "zip")
    /\ UNCHANGED <<DefaultClient, resource, file, sink, zipReader, rc>>
    /\ UNCHANGED apivars

\* zipReader, err := zip.NewReader(reader, reader.Length())
\* if err != nil { return err }
BuildDirectory(s) ==
    /\ pc[s] = "zip"
    /\ Step(s, "zip.NewReader")
    /\ \E fault \in BOOLEAN :
          LET z == NewZipReader(resource[s], fault)
          IN  /\ err' = Set(err, s, z.err)
              /\ zipReader' = Set(zipReader, s, [built |-> z.err = "nil", File |-> z.File])
              /\ IF zipFailed(z.err) THEN Return(s, z.err) ELSE Goto(s, "find")
    /\ UNCHANGED <<DefaultClient, resource, file, sink, reader, rc>>
    /\ UNCHANGED apivars

\* for _, f := range zipReader.File { if f.Name == file { return bufferedDownload(f, w) } }
\* return fmt.Errorf("pwn: file '%s' not found in resource '%s'", file, resource)
FindFile(s) ==
    /\ pc[s] = "find"
    /\ Step(s, "lookup")
    /\ LET i == Lookup(zipReader[s].File, file[s])
       IN  IF i = 0
           THEN /\ Return(s, NotFound)
                /\ UNCHANGED rc
           ELSE /\ rc' = Set(rc, s, [rc[s] EXCEPT !.file = i])
                /\ Goto(s, "fopen")
    /\ UNCHANGED <<DefaultClient, resource, file, err, sink, reader, zipReader>>
    /\ UNCHANGED apivars

\* bufferedDownload: rc, err := file.Open(); if err != nil { return err }
OpenFile(s) ==
    /\ pc[s] = "fopen"
    /\ Step(s, "bufferedDownload")
    /\ LET f == zipReader[s].File[rc[s].file]
       IN  \E fault \in BOOLEAN :
             LET e == FileOpen(f, fault)
             IN  /\ err' = Set(err, s, e)
                 /\ IF openFailed(e)
                    THEN /\ Return(s, e)
                         /\ UNCHANGED rc
                    ELSE /\ \E d \in Delivered(PayloadOf(resource[s].File[f.index])) :
                               rc' = Set(rc, s, [open |-> TRUE, closed |-> FALSE,
                                                 file |-> rc[s].file, payload |-> d,
                                                 pos |-> 0])
                         /\ Goto(s, "copy")
    /\ UNCHANGED <<DefaultClient, resource, file, sink, reader, zipReader>>
    /\ UNCHANGED apivars

\* bufferedDownload: defer rc.Close(); _, err = io.Copy(writer, rc); return err
\* One iteration of io.Copy's loop: a Read from rc, then a Write of what was
\* read; the writer takes nw of the bytes and fails when that is not all.
CopyChunk(s) ==
    /\ pc[s] = "copy"
    /\ LET f == zipReader[s].File[rc[s].file]
           st == Stream(f, rc[s].payload)
       IN  \E rd \in Reads(st, rc[s].pos) :
           \E nw \in 0 .. Len(rd.data) :
             LET e == CopyErr(Len(rd.data), nw, rd.er)
             IN  /\ sink' = Set(sink, s, sink[s] \o SubSeq(rd.data, 1, nw))
                 /\ IF e = "none"
                    THEN /\ rc' = Set(rc, s, [rc[s] EXCEPT !.pos = @ + Len(rd.data)])
                         /\ Goto(s, "copy")
                         /\ UNCHANGED err
                    ELSE /\ rc' = Set(rc, s, [rc[s] EXCEPT !.closed = TRUE])
                         /\ err' = Set(err, s, e)
                         /\ Return(s, bufferedDownload(e))
    /\ UNCHANGED <<DefaultClient, resource, file, reader, zipReader, trace>>
    /\ UNCHANGED apivars

DownloadFile(s) ==
    \/ ParseURL(s)
    \/ OpenReader(s)
    \/ BuildDirectory(s)
    \/ FindFile(s)
    \/ OpenFile(s)
    \/ CopyChunk(s)

\* the resource of a session that makes no call
IdleResource == [wellformed |-> FALSE, status |-> "idle", zip |-> FALSE, File |-> <<>>]

NoWrapper == [made |-> FALSE, base |-> "ok", httpClient |-> "nil"]

NoReturn == [body |-> "nil", statusCode |-> 0, err |-> "nil"]

NoRequest ==
    [helper |-> "none", base |-> "ok", output |-> FALSE,
     fate |-> [kind |-> "ok", statusCode |-> 200]]

NoResponse == [res |-> "nil", err |-> "nil", unmarshalled |-> FALSE]

\* package api before any client is made, in the given build
ApiInit(b, at) ==
    /\ build = b
    /\ wrapper = NoWrapper
    /\ ctorArg = "nil"
    /\ issuedVia = {}
    /\ ret = NoReturn
    /\ served = NoRequest
    /\ mret = NoResponse
    /\ apc = at
    /\ op = "none"
    /\ resp = 0
    /\ kerr = "nil"
    /\ deferred = FALSE
    /\ bodies = <<>>
    /\ nilCloses = 0
    /\ requests = 0

ApiIdle == ApiInit("native", "off")

\* the state in which the sessions of S are about to call DownloadFile with
\* the resources res and the requested names names
InitCalls(S, res, names) ==
    /\ DefaultClient = "DefaultClient"
    /\ pc = [s \in Sessions |-> IF s \in S THEN "parse" ELSE "off"]
    /\ resource = [s \in Sessions |-> IF s \in S THEN res[s] ELSE IdleResource]
    /\ file = [s \in Sessions |-> IF s \in S THEN names[s] ELSE "a"]
    /\ err = [s \in Sessions |-> "nil"]
    /\ result = [s \in Sessions |-> "none"]
    /\ sink = [s \in Sessions |-> <<>>]
    /\ reader = [s \in Sessions |-> NoReader]
    /\ zipReader = [s \in Sessions |-> NoZip]
    /\ rc = [s \in Sessions |-> NoRC]
    /\ trace = [s \in Sessions |-> <<>>]

\* one call of DownloadFile, for any resource and any requested name
Init ==
    /\ \E name \in RequestNames :
          \/ \E r \in OtherResources :
                InitCalls({"s1"}, [s \in Sessions |-> r], [s \in Sessions |-> name])
          \/ \E l \in Profiles :
             \E nm \in [1 .. Len(l) -> StoredNames] :
             \E m \in [1 .. Len(l) -> Methods] :
             \E bytes \in [1 .. SumTo(l, Len(l)) -> Byte] :
                InitCalls({"s1"},
                          [s \in Sessions |-> ZipResource(ArchiveOf(l, nm, m, bytes))],
                          [s \in Sessions |-> name])
    /\ ApiIdle

Next == \E s \in Sessions : DownloadFile(s)

Spec == Init /\ [][Next]_vars

\* the resources of two calls that run concurrently: an archive with one
\* stored entry, one with two entries of the same name, one whose only entry
\* differs from the requested name in case, and a server without ranges
ConcResources ==
    {ZipResource(<<[name |-> "a", method |-> "Store", content |-> <<0, 1>>]>>),
     ZipResource(<<[name |-> "a", method |-> "Deflate", content |-> <<1>>],
                   [name |-> "a", method |-> "Store", content |-> <<0>>]>>),
     ZipResource(<<[name |-> "A", method |-> "Other", content |-> <<1>>]>>),
     [wellformed |-> TRUE, status |-> "200", zip |-> FALSE, File |-> <<>>]}

\* two calls of DownloadFile in two goroutines
InitConc ==
    /\ \E res \in [Sessions -> ConcResources] :
       \E names \in [Sessions -> RequestNames] :
          InitCalls(Sessions, res, names)
    /\ ApiIdle

SpecConc == InitConc /\ [][Next]_vars

\* -------------------------------------------------------------- package api

\* the base URLs a client is made with: one http.NewRequest accepts, one it rejects
Bases == {"ok", "bad"}

\* the httpClient arguments of NewIPSWClient: nil or a client of the caller's
ClientArgs == {"nil", "custom"}

\* what the server may answer with
StatusCodes == {200, 399, 400, 401, 404}

\* what may become of one request: it fails to be sent, its body fails to
\* be read, its body is no JSON of the expected shape, or it is served
Fates == [kind : {"sendErr", "readErr", "badJSON", "ok"}, statusCode : StatusCodes]

\* a newHTTPWrapper without the nil check
newHTTPWrapperNoDefault(base, client) ==
    [made |-> TRUE, base |-> base, httpClient |-> client]

\* newHTTPWrapper of the native build
newHTTPWrapper(base, client) ==
    [made |-> TRUE, base |-> base,
     httpClient |-> IF client = "nil" THEN "http.DefaultClient" ELSE client]

\* newHTTPWrapper of the js build: the client is dropped, the wrapper has no
\* httpClient field
newHTTPWrapperJS(base, client) ==
    [made |-> TRUE, base |-> base, httpClient |-> "absent"]

\* makeRequest of the native build on wrapper h: what the request is issued
\* through ("none": no request is issued) and the (body, statusCode, err) returned
makeRequest(h, fate) ==
    IF h.base = "bad"
    THEN [via |-> "none", ret |-> [body |-> "nil", statusCode |-> 0, err |-> "ErrNewRequest"]]
    ELSE IF fate.kind = "sendErr"
    THEN [via |-> h.httpClient, ret |-> [body |-> "nil", statusCode |-> 0, err |-> "ErrDo"]]
    ELSE IF fate.kind = "readErr"
    THEN [via |-> h.httpClient, ret |-> [body |-> "nil", statusCode |-> 0, err |-> "ErrRead"]]
    ELSE [via |-> h.httpClient,
          ret |-> [body |-> "buf", statusCode |-> fate.statusCode, err |-> "nil"]]

\* makeRequest of the js build: the request goes through XMLHttpRequest
makeRequestJS(h, fate) ==
    IF h.base = "bad" \/ fate.kind \in {"sendErr", "readErr"}
    THEN [via |-> "xhr", ret |-> [body |-> "nil", statusCode |-> 0, err |-> "ErrSend"]]
    ELSE IF fate.statusCode >= 400
    THEN [via |-> "xhr",
          ret |-> [body |-> "nil", statusCode |-> fate.statusCode, err |-> "ErrInvalidResponse"]]
    ELSE [via |-> "xhr",
          ret |-> [body |-> "reader", statusCode |-> fate.statusCode, err |-> "nil"]]

\* NewIPSWClient(apiBase, httpClient)
NewIPSWClient ==
    /\ ~wrapper.made
    /\ \E base \in Bases, client \in ClientArgs :
          /\ wrapper' = IF build = "js" THEN newHTTPWrapperJS(base, client)
                        ELSE newHTTPWrapper(base, client)
          /\ ctorArg' = client
    /\ UNCHANGED <<served, mret, build, issuedVia, ret, apc, op, resp, kerr, deferred, bodies,
                   nilCloses, requests>>
    /\ UNCHANGED dlvars

\* an operation of IPSWClient (Devices, DeviceInformation, ...):
\* resp, _, err := c.client.makeRequest(url, nil), then parseJSON
IPSWRequest ==
    /\ wrapper.made
    /\ requests < MaxRequests
    /\ \E fate \in Fates :
          LET r == IF build = "js" THEN makeRequestJS(wrapper, fate)
                   ELSE makeRequest(wrapper, fate)
          IN  /\ issuedVia' = IF r.via = "none" THEN issuedVia
                              ELSE issuedVia \cup {r.via}
              /\ ret' = r.ret
              /\ served' = [helper |-> IF build = "js" THEN "makeRequestJS"
                                       ELSE "makeRequest",
                            base |-> wrapper.base, output |-> FALSE, fate |-> fate]
    /\ requests' = requests + 1
    /\ UNCHANGED <<mret, build, wrapper, ctorArg, apc, op, resp, kerr, deferred, bodies,
                   nilCloses>>
    /\ UNCHANGED dlvars

\* a status test that rejects 400 as well
invalidStatusFrom400(code) == code >= 400

\* "if res.StatusCode > 400" of the output-unmarshalling MakeRequest
invalidStatus(code) == code > 400

\* MakeRequest(url, output, headers) on a client with the given Base: the
\* (*http.Response, error) it returns and whether output was unmarshalled into
MakeRequestOutput(base, fate, output) ==
    IF base = "bad"
    THEN [res |-> "nil", err |-> "ErrNewRequest", unmarshalled |-> FALSE]
    ELSE IF fate.kind = "sendErr"
    THEN [res |-> "nil", err |-> "ErrDo", unmarshalled |-> FALSE]
    ELSE IF invalidStatus(fate.statusCode)
    THEN [res |-> "nil", err |-> "ErrInvalidStatus", unmarshalled |-> FALSE]
    ELSE IF ~output
    THEN [res |-> "res", err |-> "nil", unmarshalled |-> FALSE]
    ELSE IF fate.kind = "readErr"
    THEN [res |-> "nil", err |-> "ErrRead", unmarshalled |-> FALSE]
    ELSE IF fate.kind = "badJSON"
    THEN [res |-> "res", err |-> "ErrUnmarshal", unmarshalled |-> FALSE]
    ELSE [res |-> "res", err |-> "nil", unmarshalled |-> TRUE]

\* an operation of a client built on the output-unmarshalling MakeRequest:
\* _, err := c.MakeRequest(url, &x, nil), or res, err := c.MakeRequest(url, nil, nil)
ClientRequest ==
    /\ requests < MaxRequests
    /\ \E base \in Bases, fate \in Fates, output \in BOOLEAN :
          /\ mret' = MakeRequestOutput(base, fate, output)
          /\ served' = [helper |-> "MakeRequest", base |-> base, output |-> output,
                        fate |-> fate]
    /\ requests' = requests + 1
    /\ UNCHANGED <<build, wrapper, ctorArg, issuedVia, ret, apc, op, resp, kerr,
                   deferred, bodies, nilCloses>>
    /\ UNCHANGED dlvars

\* a keysClient operation that defers the Close before it has looked at err
deferCloseAlways(e) == TRUE

\* whether a keysClient operation reaches its "defer resp.Body.Close()"
\* when MakeRequest returned the error e
deferClose(e) == e = "nil"

\* keysClient.Devices, Firmwares or Keys is called
KeysCall ==
    /\ apc = "idle"
    /\ requests < MaxRequests
    /\ \E o \in {"Devices", "Firmwares", "Keys"} : op' = o
    /\ apc' = "MakeRequest"
    /\ requests' = requests + 1
    /\ resp' = 0
    /\ kerr' = "nil"
    /\ deferred' = FALSE
    /\ UNCHANGED <<served, mret, build, wrapper, ctorArg, issuedVia, ret, bodies, nilCloses>>
    /\ UNCHANGED dlvars

\* resp, err := c.MakeRequest(url, nil): the response comes back with its
\* body open, or nil with an error
MakeRequest ==
    /\ apc = "MakeRequest"
    /\ \E e \in {"nil", "ErrNewRequest", "ErrDo"} :
          /\ kerr' = e
          /\ IF e = "nil"
             THEN /\ bodies' = Append(bodies, [op |-> op, path |-> "open", closes |-> 0])
                  /\ resp' = Len(bodies) + 1
             ELSE /\ resp' = 0
                  /\ UNCHANGED bodies
    /\ apc' = "check"
    /\ UNCHANGED <<served, mret, build, wrapper, ctorArg, issuedVia, ret, op, deferred, nilCloses,
                   requests>>
    /\ UNCHANGED dlvars

\* if err != nil { return nil, err }; defer resp.Body.Close()
CheckErr ==
    /\ apc = "check"
    /\ deferred' = deferClose(kerr)
    /\ apc' = IF kerr # "nil" THEN "return" ELSE "parseJSON"
    /\ UNCHANGED <<served, mret, build, wrapper, ctorArg, issuedVia, ret, op, resp, kerr, bodies,
                   nilCloses, requests>>
    /\ UNCHANGED dlvars

\* err = parseJSON(resp, &x): the body is read, then unmarshalled
ParseJSON ==
    /\ apc = "parseJSON"
    /\ \E e \in {"nil", "ErrRead", "ErrUnmarshal"} :
          /\ kerr' = e
          /\ bodies' = [bodies EXCEPT ![resp].path = IF e = "nil" THEN "parsed" ELSE e]
    /\ apc' = "return"
    /\ UNCHANGED <<served, mret, build, wrapper, ctorArg, issuedVia, ret, op, resp, deferred,
                   nilCloses, requests>>
    /\ UNCHANGED dlvars

\* the operation returns; the deferred Close runs
KeysReturn ==
    /\ apc = "return"
    /\ IF ~deferred THEN UNCHANGED <<bodies, nilCloses>>
       ELSE IF resp = 0
            THEN /\ nilCloses' = nilCloses + 1
                 /\ UNCHANGED bodies
            ELSE /\ bodies' = [bodies EXCEPT ![resp].closes = @ + 1]
                 /\ UNCHANGED nilCloses
    /\ apc' = "idle"
    /\ op' = "none"
    /\ UNCHANGED <<served, mret, build, wrapper, ctorArg, issuedVia, ret, resp, kerr, deferred,
                   requests>>
    /\ UNCHANGED dlvars

\* package api in either build, no client made and no operation in progress
InitApi ==
    /\ \E b \in {"native", "js"} : ApiInit(b, "idle")
    /\ InitCalls({}, [s \in Sessions |-> IdleResource], [s \in Sessions |-> "a"])

NextApi ==
    \/ NewIPSWClient
    \/ IPSWRequest
    \/ ClientRequest
    \/ KeysCall
    \/ MakeRequest
    \/ CheckErr
    \/ ParseJSON
    \/ KeysReturn

SpecApi == InitApi /\ [][NextApi]_vars

\* ------------------------------------------------------------------ claims

Range(q) == {q[i] : i \in 1 .. Len(q)}

\* the indices of the entries of archive a stored under name
Named(a, name) == {i \in 1 .. Len(a) : a[i].name = name}

\* the first entry of the archive of s stored under the requested name, in
\* central-directory order; 0 when there is none
Target(s) ==
    LET hits == Named(resource[s].File, file[s])
    IN  IF hits = {} THEN 0 ELSE CHOOSE i \in hits : \A j \in hits : i <= j

\* the content of the target entry as a full download and unzip yields it
TargetContent(s) == resource[s].File[Target(s)].content

\* the payload of the entry being copied reached the call altered
Corrupted(s) ==
    /\ rc[s].open
    /\ rc[s].payload # PayloadOf(resource[s].File[zipReader[s].File[rc[s].file].index])

\* what the reader of the entry being copied hands out, run to its end
Streamed(s) == Stream(zipReader[s].File[rc[s].file], rc[s].payload)

\* C1: once the directory of an archive is built and no entry is stored
\* under the requested name, the call writes nothing to the sink and returns
\* the not-found error, never nil.
C1_NotFound ==
    \A s \in Sessions :
        (zipReader[s].built /\ Named(resource[s].File, file[s]) = {})
            => /\ sink[s] = <<>>
               /\ result[s] # "nil"
               /\ pc[s] = "done" => result[s] = "ErrNotFound"

C1_Witness ==
    \E s \in Sessions :
        /\ pc[s] = "done"
        /\ result[s] = "ErrNotFound"
        /\ zipReader[s].built
        /\ Len(resource[s].File) = MaxEntries

\* C2 as stated: for every entry stored under the requested name, a call
\* that returns nil has written exactly that entry's content.
C2_Original ==
    \A s \in Sessions :
        (pc[s] = "done" /\ result[s] = "nil")
            => \A i \in Named(resource[s].File, file[s]) :
                  sink[s] = resource[s].File[i].content

\* C2: a call that returns nil has written exactly the content of the first
\* entry, in central-directory order, stored under the requested name: the
\* same bytes in the same order, nothing added or dropped.
C2_FirstEntryContent ==
    \A s \in Sessions :
        (pc[s] = "done" /\ result[s] = "nil")
            => /\ Target(s) # 0
               /\ sink[s] = TargetContent(s)

C2_Witness ==
    \E s \in Sessions :
        /\ pc[s] = "done"
        /\ result[s] = "nil"
        /\ resource[s].File[Target(s)].method = "Deflate"
        /\ Len(sink[s]) = MaxBytes
        /\ sink[s] = TargetContent(s)

\* C3: the steps of a call run in the order url.Parse, ranger.NewReader,
\* zip.NewReader, lookup, bufferedDownload, each at most once; a step that
\* fails ends the call with its error, and a call that has returned runs no
\* step and writes no byte.
C3_StepsInOrder ==
    [][\A s \in Sessions :
          /\ \/ trace'[s] = trace[s]
             \/ /\ result[s] = "none"
                /\ Len(trace[s]) < Len(StepOrder)
                /\ trace'[s] = Append(trace[s], StepOrder[Len(trace[s]) + 1])
          /\ err'[s] # "nil" => (pc'[s] = "done" /\ result'[s] = err'[s])
          /\ result[s] # "none"
                => /\ result'[s] = result[s]
                   /\ trace'[s] = trace[s]
                   /\ sink'[s] = sink[s]
                   /\ pc'[s] = "done"]_vars

C3_Witness ==
    \E s \in Sessions :
        /\ pc[s] = "done"
        /\ result[s] = "ErrTransport"
        /\ trace[s] = SubSeq(StepOrder, 1, 3)

\* C4: when the server answers the probe of ranger.NewReader with a full
\* 200, the call returns the range-unsupported error there: zip.NewReader
\* is never called, no entry is looked up and nothing is written.
C4_RangeUnsupported ==
    \A s \in Sessions :
        (resource[s].status = "200" /\ "ranger.NewReader" \in Range(trace[s]))
            => /\ pc[s] = "done"
               /\ result[s] = "ErrRangeUnsupported"
               /\ trace[s] = SubSeq(StepOrder, 1, 2)
               /\ ~zipReader[s].built
               /\ rc[s] = NoRC
               /\ sink[s] = <<>>

C4_Witness ==
    \E s \in Sessions :
        /\ resource[s].status = "200"
        /\ pc[s] = "done"
        /\ result[s] = "ErrRangeUnsupported"

\* C5 as stated: in every state the sink holds a prefix of the target
\* entry's true content, the whole of it once the call has returned nil.
C5_Original ==
    \A s \in Sessions :
        /\ Target(s) = 0 => sink[s] = <<>>
        /\ Target(s) # 0 => IsPrefix(sink[s], TargetContent(s))
        /\ result[s] = "nil" => (Target(s) # 0 /\ sink[s] = TargetContent(s))

\* C5: in every state the sink holds a prefix of what decompressing the
\* target entry's payload as delivered yields; that is a prefix of the
\* entry's true content whenever the payload arrived unaltered, and the whole
\* true content once the call has returned nil.
C5_PrefixOfDelivered ==
    \A s \in Sessions :
        /\ ~rc[s].open => sink[s] = <<>>
        /\ rc[s].open
              => /\ rc[s].file = Target(s)
                 /\ IsPrefix(sink[s], Streamed(s).out)
                 /\ ~Corrupted(s) => IsPrefix(sink[s], TargetContent(s))
        /\ result[s] = "nil" => (Target(s) # 0 /\ sink[s] = TargetContent(s))

C5_Witness ==
    \E s \in Sessions :
        /\ pc[s] = "done"
        /\ result[s] \notin {"nil", "none"}
        /\ ~Corrupted(s)
        /\ sink[s] # <<>>
        /\ sink[s] # TargetContent(s)
        /\ IsPrefix(sink[s], TargetContent(s))

\* the payload reached the call altered so that the decompressed output no
\* longer has the CRC-32 of the directory entry
CrcMismatch(s) ==
    /\ Corrupted(s)
    /\ Crc32(Streamed(s).out) # zipReader[s].File[rc[s].file].CRC32

\* C6 as stated: after such a corruption the call does not return nil and
\* no wrong byte reaches the sink.
C6_Original ==
    \A s \in Sessions :
        CrcMismatch(s)
            => /\ result[s] # "nil"
               /\ IsPrefix(sink[s], TargetContent(s))

\* C6: after such a corruption the call does not return nil; a call that
\* read the entry to its end returns the checksum error (or the
\* decompressor's own), and by then the wrongly decompressed bytes it was
\* handed are in the sink.
C6_ChecksumAfterStreaming ==
    \A s \in Sessions :
        CrcMismatch(s)
            => /\ result[s] # "nil"
               /\ (pc[s] = "done" /\ rc[s].pos = Len(Streamed(s).out)
                     /\ result[s] \notin {"ErrTransport", "ErrShortWrite"})
                    => /\ result[s] \in {"ErrChecksum", "ErrCorruptInput"}
                       /\ sink[s] = Streamed(s).out
               /\ result[s] = "ErrChecksum" => ~IsPrefix(sink[s], TargetContent(s))

C6_Witness ==
    \E s \in Sessions :
        /\ CrcMismatch(s)
        /\ pc[s] = "done"
        /\ result[s] = "ErrChecksum"
        /\ zipReader[s].File[rc[s].file].Method = "Deflate"
        /\ Len(sink[s]) = MaxBytes

\* the prefixes of a byte sequence, the sequence itself included
Prefixes(q) == {SubSeq(q, 1, n) : n \in 0 .. Len(q)}

\* what a call that runs alone may end with, once it has opened the entry e
\* (directory record f): <<result, bytes in the sink>>
SoloCopy(e, f) ==
    UNION {LET st == Stream(f, d)
           IN  {<<"ErrTransport", p>> : p \in Prefixes(st.out)}
               \cup {<<"ErrShortWrite", p>> : p \in Prefixes(st.out) \ {st.out}}
               \cup {<<IF st.err = "EOF" THEN "nil" ELSE st.err, st.out>>} :
           d \in Delivered(PayloadOf(e))}

\* what a call of DownloadFile(r, name, w) that runs alone may end with
SoloOutcomes(r, name) ==
    IF ~r.wellformed THEN {<<"ErrParse", <<>>>>}
    ELSE IF NewReader(r) # "nil" THEN {<<NewReader(r), <<>>>>}
    ELSE {<<"ErrTransport", <<>>>>} \cup
         (IF ~r.zip THEN {<<"ErrFormat", <<>>>>}
          ELSE LET hits == Named(r.File, name)
               IN  IF hits = {} THEN {<<"ErrNotFound", <<>>>>}
                   ELSE LET i == CHOOSE k \in hits : \A j \in hits : k <= j
                        IN  IF r.File[i].method = "Other"
                            THEN {<<"ErrAlgorithm", <<>>>>}
                            ELSE SoloCopy(r.File[i], DirEntry(r.File[i], i)))

\* the entities a call holds: its range reader, its directory, and the HTTP
\* client it handed to the range reader
Entities(s) ==
    (IF "ranger.NewReader" \in Range(trace[s])
        THEN {<<"reader", s>>, <<"client", reader[s].Client>>} ELSE {})
    \cup (IF zipReader[s].built THEN {<<"directory", s>>} ELSE {})

\* the locals of a call
Locals(s) == <<pc[s], resource[s], file[s], err[s], result[s], sink[s], reader[s],
               zipReader[s], rc[s], trace[s]>>

ExpectedClient(c) == IF c = "nil" THEN "http.DefaultClient" ELSE c

C10_BodyClosedOnce ==
    /\ nilCloses = 0
    /\ \A i \in 1 .. Len(bodies) :
          /\ bodies[i].closes <= 1
          /\ (apc = "idle" \/ i # resp) => bodies[i].closes = 1
          /\ (apc # "idle" /\ i = resp) => bodies[i].closes = 0

C10_Witness ==
    /\ apc = "idle"
    /\ Len(bodies) = MaxRequests
    /\ bodies[1].path = "ErrUnmarshal" /\ bodies[1].closes = 1
    /\ bodies[2].path = "parsed" /\ bodies[2].closes = 1

\* the lookup of the call of s has run
LookedUp(s) == "lookup" \in Range(trace[s])

\* the archive of s holds an entry whose stored name differs from the
\* requested one in letter case only
CaseOnly(s) ==
    \E i \in 1 .. Len(resource[s].File) :
        /\ resource[s].File[i].name # file[s]
        /\ ToLower(resource[s].File[i].name) = ToLower(file[s])

\* C11: once the lookup has run, the entry the call extracts is the first
\* one, in central-directory order, whose stored name equals the requested
\* name exactly, case included, and the payload it reads is that entry's and
\* no other's, however many entries carry the name; when no stored name
\* equals the requested one exactly, even if one differs from it in letter
\* case only, the call ends with the not-found error, opens no entry and
\* writes nothing.
C11_FirstExactMatch ==
    \A s \in Sessions :
        LookedUp(s)
            => IF Target(s) = 0
               THEN /\ pc[s] = "done"
                    /\ result[s] = "ErrNotFound"
                    /\ rc[s] = NoRC
                    /\ sink[s] = <<>>
               ELSE /\ rc[s].file # 0
                    /\ zipReader[s].File[rc[s].file].index = Target(s)
                    /\ zipReader[s].File[rc[s].file].Name = file[s]
                    /\ \A j \in 1 .. Target(s) - 1 :
                          resource[s].File[j].name # file[s]
                    /\ rc[s].open
                          => rc[s].payload
                               \in Delivered(PayloadOf(resource[s].File[Target(s)]))
                    /\ result[s] # "ErrNotFound"

\* two entries under the requested name with different contents: the call
\* returned nil having written the first one's
C11_Witness ==
    \E s \in Sessions :
        /\ pc[s] = "done"
        /\ result[s] = "nil"
        /\ Named(resource[s].File, file[s]) = {1, 2}
        /\ resource[s].File[1].content # resource[s].File[2].content
        /\ rc[s].file = 1
        /\ sink[s] = resource[s].File[1].content

\* an archive whose only candidate differs from the requested name in
\* letter case: the call ended with the not-found error
C11_CaseWitness ==
    \E s \in Sessions :
        /\ pc[s] = "done"
        /\ result[s] = "ErrNotFound"
        /\ CaseOnly(s)
        /\ Target(s) = 0
        /\ sink[s] = <<>>

\* the last request was answered: a response with a status code came back
Answered == served.base = "ok" /\ served.fate.kind # "sendErr"

\* the last request was answered and the body of the answer could be read
BodyRead == Answered /\ served.fate.kind # "readErr"

\* C12: the three request helpers turn different status codes into errors.
\* The output-unmarshalling MakeRequest rejects an answer for its status
\* exactly when the code is greater than 400, returning (nil, error); with a
\* readable body it returns (nil, error) exactly then, and a 400 answer is
\* treated as success: the response is returned and its body unmarshalled
\* into the output. The js-build makeRequest returns an error exactly when
\* the status is 400 or more. The native-build makeRequest returns the body
\* and the status with a nil error for every status code.
C12_StatusHandling ==
    LET code == served.fate.statusCode
    IN  /\ (served.helper = "MakeRequest" /\ Answered)
            => /\ mret.err = "ErrInvalidStatus" <=> code > 400
               /\ code > 400 => mret.res = "nil"
               /\ BodyRead => ((mret.res = "nil" /\ mret.err # "nil") <=> code > 400)
               /\ (code <= 400 /\ served.output /\ served.fate.kind = "ok")
                     => mret = [res |-> "res", err |-> "nil", unmarshalled |-> TRUE]
        /\ (served.helper = "makeRequestJS" /\ BodyRead)
            => /\ ret.err # "nil" <=> code >= 400
               /\ ret.statusCode = code
               /\ ret.body = "nil" <=> code >= 400
        /\ (served.helper = "makeRequest" /\ BodyRead)
            => ret = [body |-> "buf", statusCode |-> code, err |-> "nil"]

\* a 400 answer went through the output-unmarshalling MakeRequest as a
\* success, its body unmarshalled
C12_Witness ==
    /\ served.helper = "MakeRequest"
    /\ Answered
    /\ served.fate.statusCode = 400
    /\ served.output
    /\ mret = [res |-> "res", err |-> "nil", unmarshalled |-> TRUE]

\* the js build turned a 400 answer into an error
C12_WitnessJS ==
    /\ served.helper = "makeRequestJS"
    /\ BodyRead
    /\ served.fate.statusCode = 400
    /\ ret.err = "ErrInvalidResponse"

\* the native build handed a 404 answer back with a nil error
C12_WitnessNative ==
    /\ served.helper = "makeRequest"
    /\ BodyRead
    /\ served.fate.statusCode = 404
    /\ ret = [body |-> "buf", statusCode |-> 404, err |-> "nil"]
====
